---- MODULE Spec2Model ----
(***************************************************************************)
(* Measurement Network Gateway GUI (gui.c, utils.c, utils.h).              *)
(*                                                                         *)
(* Two kinds of threads: the GTK main thread (the control thread), which   *)
(* runs one event handler at a time, and the receive workers created by    *)
(* connect_clicked (net_rx_thread).  A handler is one action, split only   *)
(* where the main thread can be overtaken by a worker in a way the code    *)
(* makes visible: at pthread_join, between pthread_create and the          *)
(* reset_plot_state that follows it, inside a modal dialog (a nested main  *)
(* loop), and at the unlocked reads of draw_grid.                          *)
(***************************************************************************)
EXTENDS Integers, Sequences, FiniteSets, TLC

(* ---------------- program constants ---------------- *)
SENSOR_COUNT == 5
RECORD_SIZE == 16
BATCH_SIZE == 1440
VISIBLE_SAMPLES == 300
MIN_WINDOW_US == 50000
MAX_WINDOW_US == 5000000
DEFAULT_WINDOW_US == 5000000

(* ---------------- bounds of the model ---------------- *)
\* capacity of one ring buffer (1024 in utils.h, scaled down)
MAX_SAMPLES == 2
\* connections that can be established in one run
MaxConn == 3
\* uint64_t arithmetic is done modulo TsModulus (2^64 scaled down)
TsModulus == 8
\* records of a frame whose ids and timestamps vary freely
MixedLen == 2

Sensors == 0 .. (SENSOR_COUNT - 1)

\* sensor_id_t: the id of ADC0
adc_zero_sid == 1
Slots == 0 .. (MAX_SAMPLES - 1)
Conns == 1 .. MaxConn
\* what a run may use: <<connections established, frames the peers deliver>>;
\* the more connections, the fewer frames
Budgets == {<<c, MaxConn - c>> : c \in Conns}
\* the budget of the runs checked for progress
LiveBudget == <<1, 1>>
\* sensor ids a peer puts in a record; 2 is ADC1, 0 is TEMP
SidInputs == {0, 2}
\* declared payload lengths a peer sends in a length prefix
PayloadInputs == {0, RECORD_SIZE, 2 * RECORD_SIZE, BATCH_SIZE + 1}

\* "RATE", the first four bytes of a RATES message, read as a length prefix
RatesTag == ((82 * 256 + 65) * 256 + 84) * 256 + 69
\* length prefixes of a peer that also sends full batches and RATES messages
FrameInputs == PayloadInputs \cup {BATCH_SIZE, RatesTag}
\* sensor ids of a peer that also sends an id outside sensor_id_t
SidInputsAny == SidInputs \cup {SENSOR_COUNT}
\* timestamps of a device whose clock starts at 0, stands still and jumps back
TsInputs == {0, 1, 2}
\* the budget of the runs that look at the framing of the stream
FrameBudget == <<2, 1>>
\* the budget of the runs that look at timestamps
ClockBudget == <<2, 2>>

STATE_DISCONNECTED == "DISCONNECTED"
STATE_CONNECTED == "CONNECTED"
STATE_RUNNING == "RUNNING"
AppState == {STATE_DISCONNECTED, STATE_CONNECTED, STATE_RUNNING}

CmdError == {"CMD_OK", "CMD_ERR_SYNTAX", "CMD_ERR_SENSOR", "CMD_ERR_FREQ_RANGE",
             "CMD_ERR_NOT_CONNECTED", "CMD_ERR_RUNNING",
             "CMD_ERR_ALREADY_RUNNING", "CMD_ERR_NOT_RUNNING"}

\* the state-dependent verbs of cmd_enter
StateVerbs == {"CONNECT", "DISCONNECT", "START", "STOP", "SHUTDOWN"}

\* the failure paths of connect_clicked, by the status message they show
ConnectFailures == {"Socket creation failed!", "IP not found!", "Connect failed",
                    "Connection timeout", "Connection refused/unreachable"}

VARIABLES
    \* ---- session, owned by the control thread ----
    state,            \* AppState
    sock_fd,          \* -1, or the connection the descriptor belongs to
    net_running,      \* volatile int flag
    net_thread,       \* the worker pthread_create last wrote here (0: none)
    quit,             \* gtk_main_quit has been called
    cpc,              \* where the control thread is inside a split handler
    btn,              \* sensitivity of the five buttons, as apply_state left it
    cmd_last,         \* the line in cmd_entry and the CmdError in cmd_status
    cfg_last,         \* the arguments of a CONFIGURE line in cmd_entry, and the
                      \* rate cmd_enter sent for it (history, -1: nothing sent)
    checked,          \* sensors whose checkbox is active
    sensor_freq,      \* GHashTable sensor id -> rate text
    time_window_us,
    ip_text,          \* the text of connect_entry, a sequence of characters
    ip_ok,            \* gboolean ip_ok of apply_state (-1: not computed yet)
    idle,             \* g_idle_add queue of handle_connection_lost callbacks
    \* ---- ring buffer store ----
    sample_data, sample_ts, sample_count, sample_head, server_t0,
    sample_lock,      \* 0, or the worker holding the mutex
    \* ---- receive workers, one per established connection ----
    wpc, wfd, wsize, batch, wi, whead,
    \* ---- sockets and peers ----
    peer_closed, local_shut, fd_closes, nconn, fd_lost, shut_lines, conn_left, frames_left, nsent,
    \* ---- draw_grid in progress ----
    dpc, ds, dhead, dcount, di, dvis, t_min,
    \* ---- history variables (not program state) ----
    notified,         \* handle_connection_lost runs queued by each worker
    hist,             \* the last values inserted per sensor since the last
                      \* reset, one more than a buffer holds
    ts_first,         \* device timestamp of the first insert since the last
                      \* reset (-1: none)
    ts_max,           \* largest device timestamp inserted since then (-1: none)
    raced,            \* the last reset ran while an insert held the mutex
    dcands,           \* locked snapshots that existed during the traversal
    wpre,             \* the traversal as it was before the insert in progress
    wpushed           \* records of the batch in progress that were inserted

ctlVars == <<state, sock_fd, net_running, net_thread, quit, cpc, btn,
             cmd_last, cfg_last, checked, sensor_freq, time_window_us>>
bufVars == <<sample_data, sample_ts, sample_count, sample_head, server_t0>>
wrkVars == <<wpc, wfd, wsize, batch, wi, whead>>
netVars == <<peer_closed, local_shut, fd_closes, nconn, fd_lost, shut_lines, conn_left, frames_left, nsent>>
drwVars == <<dpc, ds, dhead, dcount, di, dvis, t_min>>
histVars == <<notified, hist, ts_first, ts_max, raced, dcands, wpre, wpushed>>
ipVars == <<ip_text, ip_ok>>
vars == <<ctlVars, idle, bufVars, sample_lock, wrkVars, netVars, ipVars, drwVars, histVars>>

(* ---------------- helpers ---------------- *)
Min(a, b) == IF a < b THEN a ELSE b

CmdIdle == [verb |-> "", wellformed |-> TRUE, err |-> "NONE"]

\* a token of digits that reads as the number wraps * 2^32 + value, and a
\* token that has other characters
Number(wraps, value) == [digits |-> TRUE, wraps |-> wraps, value |-> value]
Digits(n) == Number(0, n)
Word == [digits |-> FALSE, wraps |-> 0, value |-> 0]

\* g_hash_table_lookup returns NULL
NoEntry == [digits |-> FALSE, wraps |-> 0, value |-> -1]

\* no CONFIGURE line is in cmd_entry
CfgNone == [argc |-> 0, sensor |-> "", freq |-> Word, sent |-> -1]

\* an apply_state that leaves stop_btn sensitive while connected
apply_state_stop_sensitive(st) ==
    [connect    |-> (st = STATE_DISCONNECTED),
     disconnect |-> (st = STATE_CONNECTED),
     shutdown   |-> (st = STATE_CONNECTED),
     start      |-> (st = STATE_CONNECTED),
     stop       |-> (st # STATE_DISCONNECTED)]

\* apply_state: button sensitivity from the state.  connect_btn also needs
\* is_valid_ipv4 of the text in connect_entry: the entry is taken to hold a
\* valid address whenever the user goes for the button
apply_state(st) ==
    [connect    |-> (st = STATE_DISCONNECTED),
     disconnect |-> (st = STATE_CONNECTED),
     shutdown   |-> (st = STATE_CONNECTED),
     start      |-> (st = STATE_CONNECTED),
     stop       |-> (st = STATE_RUNNING)]

\* a clamp with the upper limit only
ClampWindow_upper(w) == IF w > MAX_WINDOW_US THEN MAX_WINDOW_US ELSE w

\* clamp of the visible window, as in start_clicked and handle_rates_update
ClampWindow(w) ==
    IF w < MIN_WINDOW_US THEN MIN_WINDOW_US
    ELSE IF w > MAX_WINDOW_US THEN MAX_WINDOW_US ELSE w

\* oldest-to-newest traversal of sensor s given head h and count c
Traverse(data, ts, h, c, s) ==
    [i \in 1 .. c |->
        LET idx == (((h - c) + MAX_SAMPLES) + (i - 1)) % MAX_SAMPLES
        IN  <<ts[s][idx], data[s][idx]>>]

\* what a traversal under the mutex returns for sensor s now
LockedSnapshot(s) ==
    Traverse(sample_data, sample_ts, sample_head[s], sample_count[s], s)

RECURSIVE KeepFrom(_, _)
\* the entries of a traversal with timestamp >= lo, in order
KeepFrom(seq, lo) ==
    IF seq = <<>> THEN <<>>
    ELSE IF Head(seq)[1] < lo THEN KeepFrom(Tail(seq), lo)
    ELSE <<Head(seq)>> \o KeepFrom(Tail(seq), lo)

\* a sequence cut down to its last k elements
KeepLast(seq, k) ==
    IF Len(seq) > k THEN SubSeq(seq, (Len(seq) - k) + 1, Len(seq)) ELSE seq

\* the last k elements of a sequence
LastK(seq, k) == SubSeq(seq, (Len(seq) - k) + 1, Len(seq))

\* the program after main has built the window, with budget b for its peers
InitEntry(b, text) ==
    /\ state = STATE_DISCONNECTED
    /\ sock_fd = -1
    /\ net_running = 0
    /\ net_thread = 0
    /\ quit = FALSE
    /\ cpc = "idle"
    /\ btn = apply_state(STATE_DISCONNECTED)
    /\ cmd_last = CmdIdle
    /\ cfg_last = CfgNone
    /\ checked = {}
    /\ sensor_freq = [s \in Sensors |-> NoEntry]
    /\ time_window_us = DEFAULT_WINDOW_US
    /\ idle = <<>>
    /\ sample_data = [s \in Sensors |-> [i \in Slots |-> 0]]
    /\ sample_ts = [s \in Sensors |-> [i \in Slots |-> 0]]
    /\ sample_count = [s \in Sensors |-> 0]
    /\ sample_head = [s \in Sensors |-> 0]
    /\ server_t0 = 0
    /\ sample_lock = 0
    /\ wpc = [w \in Conns |-> "none"]
    /\ wfd = [w \in Conns |-> -1]
    /\ wsize = [w \in Conns |-> 0]
    /\ batch = [w \in Conns |-> <<>>]
    /\ wi = [w \in Conns |-> 0]
    /\ whead = [w \in Conns |-> 0]
    /\ peer_closed = [c \in Conns |-> FALSE]
    /\ local_shut = [c \in Conns |-> FALSE]
    /\ fd_closes = [c \in Conns |-> 0]
    /\ nconn = 0
    /\ fd_lost = 0
    /\ shut_lines = <<>>
    /\ ip_text = text
    /\ ip_ok = -1
    /\ conn_left = b[1]
    /\ frames_left = b[2]
    /\ nsent = 0
    /\ dpc = "none"
    /\ ds = 0
    /\ dhead = 0
    /\ dcount = 0
    /\ di = 0
    /\ dvis = <<>>
    /\ t_min = 0
    /\ notified = [w \in Conns |-> 0]
    /\ hist = [s \in Sensors |-> <<>>]
    /\ ts_first = -1
    /\ ts_max = -1
    /\ raced = FALSE
    /\ dcands = {}
    /\ wpre = [w \in Conns |-> <<>>]
    /\ wpushed = [w \in Conns |-> <<>>]

\* the state after construction, connect_entry empty
InitWith(b) == InitEntry(b, <<>>)

Init == \E b \in Budgets : InitWith(b)

InitLive == InitWith(LiveBudget)

\* cmd_status keeps the outcome of a command until clear_cmd_feedback; nothing
\* reads it meanwhile, so the timer is taken to fire before the next event
FeedbackShown == cmd_last # CmdIdle /\ cpc = "idle"

\* the program runs: gtk_main has not been left
Live == ~quit /\ ~FeedbackShown

(* ---------------- ring buffer store ---------------- *)
\* push_sample: the origin is taken from the first timestamp seen while it is 0
origin_after(t0, ts) == IF t0 = 0 THEN ts ELSE t0

\* push_sample: uint64_t rel_ts = ts - server_t0
rel_ts_of(ts, t0) == (ts - t0) % TsModulus

\* a count that grows without the capacity check
count_after_push_unbounded(c) == c + 1

\* push_sample: if (sample_count[sid] < MAX_SAMPLES) sample_count[sid]++
count_after_push(c) == IF c < MAX_SAMPLES THEN c + 1 ELSE c

\* push_sample: sample_head[sid] = (head + 1) % MAX_SAMPLES
head_after_push(h) == (h + 1) % MAX_SAMPLES

\* reset_plot_state; it takes no lock
reset_plot_state ==
    /\ server_t0' = 0
    /\ sample_count' = [s \in Sensors |-> 0]
    /\ sample_head' = [s \in Sensors |-> 0]
    /\ UNCHANGED <<sample_data, sample_ts>>
    /\ hist' = [s \in Sensors |-> <<>>]
    /\ ts_first' = -1
    /\ ts_max' = -1
    /\ raced' = (sample_lock # 0)

(* ---------------- receive worker: net_rx_thread ---------------- *)
\* a worker that has been created and has not returned
Alive(w) == wpc[w] \notin {"none", "dead"}

\* a for loop that goes to the last record with a valid id at once
NextValid_last(b, i) ==
    IF \E j \in i .. Len(b) : b[j].sid < SENSOR_COUNT
    THEN CHOOSE j \in i .. Len(b) :
            /\ b[j].sid < SENSOR_COUNT
            /\ \A k \in (j + 1) .. Len(b) : b[k].sid >= SENSOR_COUNT
    ELSE Len(b) + 1

\* a for loop without the test of the sensor id
NextValid_any(b, i) == IF i <= Len(b) THEN i ELSE Len(b) + 1

\* first record at or after i that passes pkt->sensor_id < SENSOR_COUNT
NextValid(b, i) ==
    IF \E j \in i .. Len(b) : b[j].sid < SENSOR_COUNT
    THEN CHOOSE j \in i .. Len(b) :
            /\ b[j].sid < SENSOR_COUNT
            /\ \A k \in i .. (j - 1) : b[k].sid >= SENSOR_COUNT
    ELSE Len(b) + 1

\* recv() on fd returns <= 0: bad descriptor, peer closed or reset, the read
\* side shut down locally, or a further recv on a descriptor closed meanwhile
RecvFails(fd) ==
    \/ fd = -1
    \/ /\ fd # -1
       /\ (peer_closed[fd] \/ local_shut[fd] \/ fd_closes[fd] > 0)

\* recv() on fd returns the bytes asked for (a blocked recv keeps working on a
\* descriptor another thread closed meanwhile)
RecvDelivers(fd) ==
    /\ fd # -1
    /\ ~peer_closed[fd]
    /\ ~local_shut[fd]

\* a worker that returns without g_idle_add
w_exit_silent(w) ==
    /\ wpc' = [wpc EXCEPT ![w] = "dead"]
    /\ idle' = idle
    /\ wfd' = [wfd EXCEPT ![w] = -1]
    /\ wsize' = [wsize EXCEPT ![w] = 0]

\* the end of net_rx_thread, after the while loop:
\* g_idle_add(handle_connection_lost, NULL); return NULL;  (the locals die)
w_exit(w) ==
    /\ wpc' = [wpc EXCEPT ![w] = "dead"]
    /\ idle' = Append(idle, w)
    /\ wfd' = [wfd EXCEPT ![w] = -1]
    /\ wsize' = [wsize EXCEPT ![w] = 0]

\* while (net_running): leave the loop, or call recv_all(sock_fd, &net_size, 4)
w_loop(w) ==
    /\ Live
    /\ wpc[w] = "loop"
    /\ IF net_running = 0
       THEN w_exit(w)
       ELSE /\ wpc' = [wpc EXCEPT ![w] = "recv_hdr"]
            /\ wfd' = [wfd EXCEPT ![w] = sock_fd]
            /\ UNCHANGED <<idle, wsize>>
    /\ UNCHANGED <<ctlVars, bufVars, sample_lock, batch, wi, whead,
                   netVars, ipVars, drwVars, histVars>>

\* a recv_all that reports success when the stream ends after a part of the
\* bytes: the worker goes on
w_recv_fail_short_ok(w) ==
    /\ Live
    /\ wpc[w] \in {"recv_hdr", "recv_hdr_part", "recv_pay", "recv_pay_part"}
    /\ RecvFails(wfd[w])
    /\ IF wpc[w] \in {"recv_hdr_part", "recv_pay_part"}
       THEN /\ wpc' = [wpc EXCEPT ![w] = "loop"]
            /\ UNCHANGED <<idle, wfd, wsize>>
       ELSE w_exit(w)
    /\ UNCHANGED <<ctlVars, bufVars, sample_lock, batch, wi, whead,
                   netVars, ipVars, drwVars, histVars>>

\* recv_all fails on the length prefix or on the payload, before any byte or
\* after a part of them: break, then g_idle_add(handle_connection_lost), return
w_recv_fail(w) ==
    /\ Live
    /\ wpc[w] \in {"recv_hdr", "recv_hdr_part", "recv_pay", "recv_pay_part"}
    /\ RecvFails(wfd[w])
    /\ w_exit(w)
    /\ UNCHANGED <<ctlVars, bufVars, sample_lock, batch, wi, whead,
                   netVars, ipVars, drwVars, histVars>>

\* recv_all: recv() returned a part of the bytes asked for (off < len), the
\* loop calls recv() again for the rest
w_recv_part(w) ==
    /\ Live
    /\ wpc[w] \in {"recv_hdr", "recv_pay"}
    /\ RecvDelivers(wfd[w])
    /\ wpc' = [wpc EXCEPT ![w] = IF wpc[w] = "recv_hdr" THEN "recv_hdr_part"
                                 ELSE "recv_pay_part"]
    /\ UNCHANGED <<ctlVars, idle, bufVars, sample_lock, wfd, wsize, batch, wi, whead,
                   netVars, ipVars, drwVars, histVars>>

\* recv_all has the four bytes of the length prefix, one of sizes:
\* payload_size = ntohl(net_size)
recv_hdr(w, sizes) ==
    /\ Live
    /\ wpc[w] \in {"recv_hdr", "recv_hdr_part"}
    /\ RecvDelivers(wfd[w])
    /\ frames_left > 0
    /\ frames_left' = frames_left - 1
    /\ \E size \in sizes : wsize' = [wsize EXCEPT ![w] = size]
    /\ wpc' = [wpc EXCEPT ![w] = "chk_size"]
    /\ UNCHANGED <<ctlVars, idle, bufVars, sample_lock, wfd, batch, wi, whead,
                   peer_closed, local_shut, fd_closes, nconn, fd_lost, shut_lines, conn_left, ipVars, nsent,
                   drwVars, histVars>>

\* a peer that sends batches of one or two records, or a bad length
w_recv_hdr(w) == recv_hdr(w, PayloadInputs)

\* a check whose limit is one byte above sizeof(batch)
w_chk_size_lenient(w) ==
    /\ Live
    /\ wpc[w] = "chk_size"
    /\ IF wsize[w] = 0 \/ wsize[w] > BATCH_SIZE + 1
       THEN w_exit(w)
       ELSE /\ wpc' = [wpc EXCEPT ![w] = "recv_pay"]
            /\ wfd' = [wfd EXCEPT ![w] = sock_fd]
            /\ UNCHANGED <<idle, wsize>>
    /\ UNCHANGED <<ctlVars, bufVars, sample_lock, batch, wi, whead,
                   netVars, ipVars, drwVars, histVars>>

\* if (payload_size == 0 || payload_size > sizeof(batch)) break;
\* else recv_all(sock_fd, batch, payload_size) is called
w_chk_size(w) ==
    /\ Live
    /\ wpc[w] = "chk_size"
    /\ IF wsize[w] = 0 \/ wsize[w] > BATCH_SIZE
       THEN w_exit(w)
       ELSE /\ wpc' = [wpc EXCEPT ![w] = "recv_pay"]
            /\ wfd' = [wfd EXCEPT ![w] = sock_fd]
            /\ UNCHANGED <<idle, wsize>>
    /\ UNCHANGED <<ctlVars, bufVars, sample_lock, batch, wi, whead,
                   netVars, ipVars, drwVars, histVars>>

\* the most records a batch holds: sizeof(batch) / sizeof(sensor_data_t)
MaxRecords == BATCH_SIZE \div RECORD_SIZE

\* the device stamps its samples with a running clock: the stamps of a frame
\* of n records
RunningClock ==
    [n \in 0 .. MaxRecords |-> {[i \in 1 .. n |-> (nsent + i) % TsModulus]}]

\* the sequences of n elements of set a frame can carry: all of them up to
\* MixedLen elements, the constant ones beyond
Filled(n, set) ==
    IF n <= MixedLen THEN [1 .. n -> set] ELSE {[i \in 1 .. n |-> x] : x \in set}

\* the payload arrives: samples = payload_size / sizeof(sensor_data_t) records
\* with ids from sidset and timestamps from clock; the for loop starts at the
\* first record with a sensor id below SENSOR_COUNT.  The device numbers its
\* samples
recv_pay(w, sidset, clock) ==
    /\ Live
    /\ wpc[w] \in {"recv_pay", "recv_pay_part"}
    /\ RecvDelivers(wfd[w])
    /\ LET samples == wsize[w] \div RECORD_SIZE
       IN  \E sids \in Filled(samples, sidset), tss \in clock[samples] :
            LET b == [i \in 1 .. samples |->
                        [sid |-> sids[i], val |-> nsent + i, ts |-> tss[i]]]
                first == NextValid(b, 1)
            IN  /\ batch' = [batch EXCEPT ![w] = b]
                /\ nsent' = nsent + samples
                /\ wi' = [wi EXCEPT ![w] = IF first <= samples THEN first ELSE 0]
                /\ wpc' = [wpc EXCEPT ![w] = IF first <= samples THEN "push" ELSE "loop"]
    /\ UNCHANGED <<ctlVars, idle, bufVars, sample_lock, wfd, wsize, whead,
                   peer_closed, local_shut, fd_closes, nconn, fd_lost, shut_lines, conn_left, ipVars, frames_left,
                   drwVars, histVars>>

\* records of TEMP and ADC1, stamped by the running clock
w_recv_pay(w) == recv_pay(w, SidInputs, RunningClock)

\* a push_sample that stores without taking sample_lock
push_store_unlocked(w) ==
    /\ Live
    /\ wpc[w] = "push"
    /\ sample_lock = 0
    /\ LET r == batch[w][wi[w]]
           t0 == origin_after(server_t0, r.ts)
           h == sample_head[r.sid]
       IN  /\ sample_lock' = sample_lock
           /\ server_t0' = t0
           /\ whead' = [whead EXCEPT ![w] = h]
           /\ sample_data' = [sample_data EXCEPT ![r.sid][h] = r.val]
           /\ sample_ts' = [sample_ts EXCEPT ![r.sid][h] = rel_ts_of(r.ts, t0)]
           /\ wpre' = [wpre EXCEPT ![w] = LockedSnapshot(r.sid)]
    /\ wpc' = [wpc EXCEPT ![w] = "push_count"]
    /\ UNCHANGED <<ctlVars, idle, sample_count, sample_head, wfd, wsize, batch, wi,
                   netVars, ipVars, drwVars, notified, hist, ts_first, ts_max, raced, dcands, wpushed>>

\* push_sample, first part: lock, set the origin if it is 0, store value and
\* relative timestamp at the head
push_store(w) ==
    /\ Live
    /\ wpc[w] = "push"
    /\ sample_lock = 0
    /\ LET r == batch[w][wi[w]]
           t0 == origin_after(server_t0, r.ts)
           h == sample_head[r.sid]
       IN  /\ sample_lock' = w
           /\ server_t0' = t0
           /\ whead' = [whead EXCEPT ![w] = h]
           /\ sample_data' = [sample_data EXCEPT ![r.sid][h] = r.val]
           /\ sample_ts' = [sample_ts EXCEPT ![r.sid][h] = rel_ts_of(r.ts, t0)]
           /\ wpre' = [wpre EXCEPT ![w] = LockedSnapshot(r.sid)]
    /\ wpc' = [wpc EXCEPT ![w] = "push_count"]
    /\ UNCHANGED <<ctlVars, idle, sample_count, sample_head, wfd, wsize, batch, wi,
                   netVars, ipVars, drwVars, notified, hist, ts_first, ts_max, raced, dcands, wpushed>>

\* push_sample, second part: the count grows up to MAX_SAMPLES
push_count(w) ==
    /\ Live
    /\ wpc[w] = "push_count"
    /\ LET r == batch[w][wi[w]]
       IN  sample_count' = [sample_count EXCEPT ![r.sid] = count_after_push(@)]
    /\ wpc' = [wpc EXCEPT ![w] = "push_head"]
    /\ UNCHANGED <<ctlVars, idle, sample_data, sample_ts, sample_head, server_t0,
                   sample_lock, wfd, wsize, batch, wi, whead,
                   netVars, ipVars, drwVars, histVars>>

\* push_sample, last part: the head advances, unlock; then the for loop goes on
\* to the next valid record or back to while (net_running)
push_head(w) ==
    /\ Live
    /\ wpc[w] = "push_head"
    /\ LET r == batch[w][wi[w]]
           nxt == NextValid(batch[w], wi[w] + 1)
           newhead == [sample_head EXCEPT ![r.sid] = head_after_push(whead[w])]
       IN  /\ sample_head' = newhead
           /\ sample_lock' = 0
           /\ wi' = [wi EXCEPT ![w] = IF nxt <= Len(batch[w]) THEN nxt ELSE 0]
           /\ wpc' = [wpc EXCEPT ![w] = IF nxt <= Len(batch[w]) THEN "push" ELSE "loop"]
           /\ batch' = [batch EXCEPT ![w] = IF nxt <= Len(batch[w]) THEN @ ELSE <<>>]
           /\ whead' = [whead EXCEPT ![w] = 0]
           /\ wpre' = [wpre EXCEPT ![w] = <<>>]
           /\ hist' = [hist EXCEPT ![r.sid] =
                            KeepLast(Append(@, r.val), MAX_SAMPLES + 1)]
           /\ ts_first' = IF ts_first = -1 THEN r.ts ELSE ts_first
           /\ ts_max' = IF r.ts > ts_max THEN r.ts ELSE ts_max
           /\ wpushed' = [wpushed EXCEPT ![w] =
                            IF nxt <= Len(batch[w]) THEN Append(@, r) ELSE <<>>]
           /\ dcands' = IF dpc \in {"head", "cnt", "rd"} /\ ds = r.sid
                        THEN dcands \cup
                             {Traverse(sample_data, sample_ts, newhead[r.sid],
                                       sample_count[r.sid], r.sid)}
                        ELSE dcands
    /\ UNCHANGED <<ctlVars, idle, sample_data, sample_ts, sample_count, server_t0,
                   wfd, wsize, netVars, ipVars, drwVars, notified, raced>>

\* the peer closes the connection, or the connection breaks
PeerClose(c) ==
    /\ Live
    /\ c <= nconn
    /\ fd_closes[c] = 0 \/ Alive(c)
    /\ ~peer_closed[c]
    /\ peer_closed' = [peer_closed EXCEPT ![c] = TRUE]
    /\ UNCHANGED <<ctlVars, idle, bufVars, sample_lock, wrkVars,
                   local_shut, fd_closes, nconn, fd_lost, shut_lines, conn_left, ipVars, frames_left, nsent,
                   drwVars, histVars>>

(* ---------------- control thread: the GTK main loop ---------------- *)
\* the main loop is between handlers, outside any dialog
UiIdle == Live /\ cpc = "idle" /\ dpc = "none"

\* the main loop, or the nested loop of a modal dialog, can dispatch a source
Dispatchable ==
    /\ Live
    /\ cpc \in {"idle", "shut_dialog", "del_dialog"}
    /\ dpc = "none"

\* a close that leaves the descriptor number in sock_fd
close_socket_keeping_fd ==
    /\ sock_fd' = sock_fd
    /\ fd_closes' = IF sock_fd >= 0
                    THEN [fd_closes EXCEPT ![sock_fd] = @ + 1]
                    ELSE fd_closes

\* if (sock_fd >= 0) { close(sock_fd); sock_fd = -1; }
close_socket ==
    /\ sock_fd' = -1
    /\ fd_closes' = IF sock_fd >= 0
                    THEN [fd_closes EXCEPT ![sock_fd] = @ + 1]
                    ELSE fd_closes

\* a stop that clears the flag and does not shut the socket down
stop_worker_flag_only ==
    /\ net_running' = 0
    /\ local_shut' = local_shut

\* net_running = 0; shutdown(sock_fd, SHUT_RDWR); then pthread_join follows
stop_worker ==
    /\ net_running' = 0
    /\ local_shut' = IF sock_fd >= 0
                     THEN [local_shut EXCEPT ![sock_fd] = TRUE]
                     ELSE local_shut

\* pthread_join(net_thread, NULL) returns
Joined == net_thread # 0 /\ wpc[net_thread] = "dead"

\* send() on fd: it can fail once the connection is gone
SendResults(fd) ==
    IF fd >= 0 /\ ~peer_closed[fd] /\ ~local_shut[fd] /\ fd_closes[fd] = 0
    THEN {TRUE}
    ELSE {TRUE, FALSE}

\* a descriptor send() can write to: valid, not shut down, not closed
Writable(fd) == fd >= 0 /\ ~local_shut[fd] /\ fd_closes[fd] = 0

\* send(sock_fd, line, ...): the line, and whether sock_fd was writable at the call
send_line(line) == [line |-> line, open |-> Writable(sock_fd)]

\* return G_SOURCE_CONTINUE: the idle source stays queued
source_continue(q) == q

\* return G_SOURCE_REMOVE: the idle source that ran leaves the queue
source_remove(q) == Tail(q)

\* handle_connection_lost, run once by the main loop for each g_idle_add
handle_connection_lost ==
    /\ Dispatchable
    /\ idle # <<>>
    /\ idle' = source_remove(idle)
    /\ notified' = [notified EXCEPT ![Head(idle)] = @ + 1]
    /\ net_running' = 0
    /\ close_socket
    /\ reset_plot_state
    /\ state' = STATE_DISCONNECTED
    /\ btn' = apply_state(STATE_DISCONNECTED)
    /\ UNCHANGED <<net_thread, quit, cpc, cmd_last, cfg_last, checked, sensor_freq, time_window_us,
                   sample_lock, wrkVars, peer_closed, local_shut, nconn, fd_lost, shut_lines, conn_left, ipVars,
                   frames_left, nsent, drwVars, dcands, wpre, wpushed>>

\* the failure paths of connect_clicked that return after socket() succeeded
OpensSocket(f) == f # "Socket creation failed!"

\* the failure paths of connect_clicked that call close(sock_fd) before returning
ClosesSocket(f) ==
    f \in {"IP not found!", "Connect failed", "Connection timeout",
           "Connection refused/unreachable"}

\* a failure path that returns with the descriptor of the attempt still open
connect_failed_open(f) ==
    /\ sock_fd' = -1
    /\ fd_lost' = IF f = "Connection timeout" THEN 1 ELSE fd_lost

\* one failure path of connect_clicked: socket() returned -1, or the descriptor
\* is closed and sock_fd is set to -1; fd_lost counts descriptors left open
connect_failed(f) ==
    /\ sock_fd' = -1
    /\ fd_lost' = IF OpensSocket(f) /\ ~ClosesSocket(f) THEN 1 ELSE fd_lost

\* connect_clicked up to pthread_create: one of the failure paths, or a socket
\* is connected, net_running is set and the worker is created
connect_clicked ==
    \/ /\ \E f \in ConnectFailures : connect_failed(f)
       /\ UNCHANGED <<net_running, net_thread, cpc, nconn, shut_lines, conn_left, ipVars, wpc>>
    \/ /\ conn_left > 0
       /\ UNCHANGED <<fd_lost, shut_lines, ipVars>>
       /\ conn_left' = conn_left - 1
       /\ nconn' = nconn + 1
       /\ sock_fd' = nconn + 1
       /\ net_running' = 1
       /\ net_thread' = nconn + 1
       /\ wpc' = [wpc EXCEPT ![nconn + 1] = "loop"]
       /\ cpc' = "connect_reset"

\* connect_clicked after pthread_create: reset_plot_state, state = CONNECTED,
\* the TEMP and ADC1 checkboxes are activated, apply_state
connect_finish ==
    /\ Live
    /\ cpc = "connect_reset"
    /\ reset_plot_state
    /\ state' = STATE_CONNECTED
    /\ checked' = checked \cup {0, 2}
    /\ btn' = apply_state(STATE_CONNECTED)
    /\ cpc' = "idle"
    /\ UNCHANGED <<sock_fd, net_running, net_thread, quit, cmd_last, cfg_last, sensor_freq,
                   time_window_us, idle, sample_lock, wrkVars,
                   netVars, ipVars, drwVars, notified, dcands, wpre, wpushed>>

\* disconnect_clicked after the join: close, reset, state = DISCONNECTED
disconnect_tail ==
    /\ close_socket
    /\ reset_plot_state
    /\ state' = STATE_DISCONNECTED
    /\ btn' = apply_state(STATE_DISCONNECTED)
    /\ cpc' = "idle"

\* disconnect_clicked: stop the worker and wait for it if net_running is set
disconnect_clicked ==
    IF net_running # 0
    THEN /\ stop_worker
         /\ cpc' = "disc_join"
         /\ UNCHANGED <<sock_fd, fd_closes, bufVars, hist, ts_first, ts_max, raced, state, btn>>
    ELSE /\ disconnect_tail
         /\ UNCHANGED <<net_running, local_shut>>

disconnect_join ==
    /\ Live
    /\ cpc = "disc_join"
    /\ Joined
    /\ disconnect_tail
    /\ UNCHANGED <<net_running, net_thread, quit, cmd_last, cfg_last, checked, sensor_freq,
                   time_window_us, idle, sample_lock, wrkVars, peer_closed,
                   local_shut, nconn, fd_lost, shut_lines, conn_left, ipVars, frames_left, nsent, drwVars, notified,
                   dcands, wpre, wpushed>>

\* start_clicked: guards, send START, default rates and window, state = RUNNING
start_clicked ==
    IF sock_fd < 0 \/ state = STATE_RUNNING
    THEN UNCHANGED <<state, btn, time_window_us, sensor_freq>>
    ELSE \E sent \in SendResults(sock_fd) :
            IF ~sent
            THEN UNCHANGED <<state, btn, time_window_us, sensor_freq>>
            ELSE /\ sensor_freq' = [s \in Sensors |-> Digits(300)]
                 /\ time_window_us' =
                        ClampWindow((VISIBLE_SAMPLES * 1000000) \div 300)
                 /\ state' = STATE_RUNNING
                 /\ btn' = apply_state(STATE_RUNNING)

\* stop_clicked: send STOP (result ignored), state = CONNECTED
stop_clicked ==
    IF sock_fd < 0
    THEN UNCHANGED <<state, btn>>
    ELSE /\ state' = STATE_CONNECTED
         /\ btn' = apply_state(STATE_CONNECTED)

\* shutdown_clicked after the join: close, state = DISCONNECTED, gtk_main_quit
shutdown_tail ==
    /\ close_socket
    /\ state' = STATE_DISCONNECTED
    /\ btn' = apply_state(STATE_DISCONNECTED)
    /\ quit' = TRUE
    /\ cpc' = "idle"

\* the confirmation dialog of shutdown_clicked is answered No
shutdown_no ==
    /\ Live
    /\ cpc = "shut_dialog"
    /\ dpc = "none"
    /\ cpc' = "idle"
    /\ UNCHANGED <<state, sock_fd, net_running, net_thread, quit, btn,
                   cmd_last, cfg_last, checked, sensor_freq, time_window_us, idle,
                   bufVars, sample_lock, wrkVars, netVars, ipVars, drwVars, histVars>>

\* answered Yes: STOP if running, SHUTDOWN, then stop the worker and wait
shutdown_yes ==
    /\ Live
    /\ cpc = "shut_dialog"
    /\ dpc = "none"
    /\ shut_lines' = (IF state = STATE_RUNNING /\ sock_fd >= 0
                      THEN <<send_line("STOP")>> ELSE <<>>)
                     \o <<send_line("SHUTDOWN")>>
    /\ IF net_running # 0
       THEN /\ stop_worker
            /\ cpc' = "shut_join"
            /\ UNCHANGED <<sock_fd, fd_closes, state, btn, quit>>
       ELSE /\ shutdown_tail
            /\ UNCHANGED <<net_running, local_shut>>
    /\ UNCHANGED <<net_thread, cmd_last, cfg_last, checked, sensor_freq,
                   time_window_us, idle, bufVars, sample_lock, wrkVars,
                   peer_closed, nconn, fd_lost, conn_left, ipVars, frames_left, nsent, drwVars, histVars>>

shutdown_join ==
    /\ Live
    /\ cpc = "shut_join"
    /\ Joined
    /\ shutdown_tail
    /\ UNCHANGED <<net_running, net_thread, cmd_last, cfg_last, checked, sensor_freq, time_window_us, idle, bufVars, sample_lock,
                   wrkVars, peer_closed, local_shut, nconn, fd_lost, shut_lines, conn_left, ipVars, frames_left, nsent,
                   drwVars, histVars>>

\* on_window_delete after the join: close, reset, gtk_main_quit
delete_tail ==
    /\ close_socket
    /\ reset_plot_state
    /\ quit' = TRUE
    /\ cpc' = "idle"

\* on_window_delete: quit at once if disconnected, else ask
on_window_delete ==
    /\ UiIdle
    /\ IF state = STATE_DISCONNECTED
       THEN quit' = TRUE /\ UNCHANGED cpc
       ELSE cpc' = "del_dialog" /\ UNCHANGED quit
    /\ UNCHANGED <<state, sock_fd, net_running, net_thread, btn, cmd_last, cfg_last,
                   checked, sensor_freq, time_window_us, idle, bufVars,
                   sample_lock, wrkVars, netVars, ipVars, drwVars, histVars>>

delete_no ==
    /\ Live
    /\ cpc = "del_dialog"
    /\ dpc = "none"
    /\ cpc' = "idle"
    /\ UNCHANGED <<state, sock_fd, net_running, net_thread, quit, btn,
                   cmd_last, cfg_last, checked, sensor_freq, time_window_us, idle,
                   bufVars, sample_lock, wrkVars, netVars, ipVars, drwVars, histVars>>

delete_yes ==
    /\ Live
    /\ cpc = "del_dialog"
    /\ dpc = "none"
    /\ IF net_running # 0
       THEN /\ stop_worker
            /\ cpc' = "del_join"
            /\ UNCHANGED <<sock_fd, fd_closes, bufVars, hist, ts_first, ts_max, raced, quit>>
       ELSE /\ delete_tail
            /\ UNCHANGED <<net_running, local_shut>>
    /\ UNCHANGED <<state, net_thread, btn, cmd_last, cfg_last, checked, sensor_freq, time_window_us, idle, sample_lock, wrkVars,
                   peer_closed, nconn, fd_lost, shut_lines, conn_left, ipVars, frames_left, nsent, drwVars, notified,
                   dcands, wpre, wpushed>>

delete_join ==
    /\ Live
    /\ cpc = "del_join"
    /\ Joined
    /\ delete_tail
    /\ UNCHANGED <<state, net_running, net_thread, btn, cmd_last, cfg_last, checked, sensor_freq, time_window_us, idle, sample_lock, wrkVars,
                   peer_closed, local_shut, nconn, fd_lost, shut_lines, conn_left, ipVars, frames_left, nsent, drwVars,
                   notified, dcands, wpre, wpushed>>

(* ---------------- user input ---------------- *)
ClickConnect ==
    /\ UiIdle
    /\ btn.connect
    /\ connect_clicked
    /\ UNCHANGED <<state, quit, btn, cmd_last, cfg_last, checked, sensor_freq, time_window_us,
                   idle, bufVars, sample_lock, wfd, wsize, batch, wi, whead,
                   peer_closed, local_shut, fd_closes, frames_left, nsent,
                   drwVars, histVars>>

ClickDisconnect ==
    /\ UiIdle
    /\ btn.disconnect
    /\ disconnect_clicked
    /\ UNCHANGED <<net_thread, quit, cmd_last, cfg_last, checked, sensor_freq, time_window_us,
                   idle, sample_lock, wrkVars, peer_closed, nconn, fd_lost, shut_lines, conn_left, ipVars, frames_left,
                   nsent, drwVars, notified, dcands, wpre, wpushed>>

ClickStart ==
    /\ UiIdle
    /\ btn.start
    /\ start_clicked
    /\ UNCHANGED <<sock_fd, net_running, net_thread, quit, cpc, cmd_last, cfg_last,
                   checked, idle, bufVars, sample_lock, wrkVars,
                   netVars, ipVars, drwVars, histVars>>

ClickStop ==
    /\ UiIdle
    /\ btn.stop
    /\ stop_clicked
    /\ UNCHANGED <<sock_fd, net_running, net_thread, quit, cpc, cmd_last, cfg_last,
                   checked, sensor_freq, time_window_us, idle, bufVars,
                   sample_lock, wrkVars, netVars, ipVars, drwVars, histVars>>

\* shutdown_clicked opens its confirmation dialog (gtk_dialog_run)
ClickShutdown ==
    /\ UiIdle
    /\ btn.shutdown
    /\ cpc' = "shut_dialog"
    /\ UNCHANGED <<state, sock_fd, net_running, net_thread, quit, btn,
                   cmd_last, cfg_last, checked, sensor_freq, time_window_us, idle,
                   bufVars, sample_lock, wrkVars, netVars, ipVars, drwVars, histVars>>

\* verbs typed into cmd_entry; STATUS stands for a word cmd_enter does not know
CmdVerbs == StateVerbs \cup {"STATUS"}

\* a cmd_enter without state checks
cmd_result_accepting(verb, wellformed, st) ==
    IF wellformed /\ verb \in StateVerbs THEN "CMD_OK" ELSE "CMD_ERR_SYNTAX"

\* cmd_enter: the CmdError a command line ends with.  wellformed: the token
\* count fits the verb, and for CONNECT the argument passes is_valid_ipv4
cmd_result(verb, wellformed, st) ==
    IF ~wellformed THEN "CMD_ERR_SYNTAX"
    ELSE CASE verb = "CONNECT" ->
                IF st # STATE_DISCONNECTED THEN "CMD_ERR_SYNTAX" ELSE "CMD_OK"
           [] verb \in {"DISCONNECT", "SHUTDOWN"} ->
                IF st = STATE_DISCONNECTED THEN "CMD_ERR_NOT_CONNECTED"
                ELSE IF st = STATE_RUNNING THEN "CMD_ERR_RUNNING" ELSE "CMD_OK"
           [] verb = "START" ->
                IF st = STATE_DISCONNECTED THEN "CMD_ERR_NOT_CONNECTED"
                ELSE IF st = STATE_RUNNING THEN "CMD_ERR_ALREADY_RUNNING"
                ELSE "CMD_OK"
           [] verb = "STOP" ->
                IF st = STATE_DISCONNECTED THEN "CMD_ERR_NOT_CONNECTED"
                ELSE IF st # STATE_RUNNING THEN "CMD_ERR_NOT_RUNNING" ELSE "CMD_OK"
           [] OTHER -> "CMD_ERR_SYNTAX"

\* cmd_enter: what an accepted command runs
cmd_effect(verb) ==
    CASE verb = "CONNECT" ->
            /\ btn' = apply_state(state)
            /\ connect_clicked
            /\ UNCHANGED <<state, quit, checked, sensor_freq, time_window_us, idle, bufVars,
                           sample_lock, wfd, wsize, batch, wi, whead, peer_closed,
                           local_shut, fd_closes, frames_left, nsent, drwVars,
                           histVars>>
      [] verb = "DISCONNECT" ->
            /\ disconnect_clicked
            /\ UNCHANGED <<net_thread, quit, checked, sensor_freq, time_window_us, idle,
                           sample_lock, wrkVars, peer_closed, nconn, fd_lost, shut_lines, conn_left, ipVars, frames_left,
                           nsent, drwVars, notified, dcands, wpre, wpushed>>
      [] verb = "SHUTDOWN" ->
            /\ cpc' = "shut_dialog"
            /\ UNCHANGED <<state, sock_fd, net_running, net_thread, quit, btn, checked, sensor_freq, time_window_us, idle,
                           bufVars, sample_lock, wrkVars, netVars, ipVars, drwVars,
                           histVars>>
      [] verb = "START" ->
            /\ start_clicked
            /\ UNCHANGED <<sock_fd, net_running, net_thread, quit, cpc,
                           checked, idle, bufVars, sample_lock,
                           wrkVars, netVars, ipVars, drwVars, histVars>>
      [] verb = "STOP" ->
            /\ stop_clicked
            /\ UNCHANGED <<sock_fd, net_running, net_thread, quit, cpc,
                           checked, sensor_freq, time_window_us, idle, bufVars,
                           sample_lock, wrkVars, netVars, ipVars, drwVars, histVars>>

\* cmd_enter: Enter in cmd_entry, which is sensitive until a command has run
\* and again after clear_cmd_feedback
cmd_enter(verb, wellformed) ==
    /\ UiIdle
    /\ cmd_last = CmdIdle
    /\ LET err == cmd_result(verb, wellformed, state)
       IN  /\ cmd_last' = [verb |-> verb, wellformed |-> wellformed, err |-> err]
           /\ cfg_last' = CfgNone
           /\ IF err = "CMD_OK"
              THEN cmd_effect(verb)
              ELSE UNCHANGED <<state, sock_fd, net_running, net_thread, quit, cpc,
                               btn, checked, sensor_freq, time_window_us,
                               idle, bufVars, sample_lock, wrkVars, netVars, ipVars,
                               drwVars, histVars>>

\* clear_cmd_feedback (timer): the entry is emptied and sensitive again
clear_cmd_feedback ==
    /\ ~quit
    /\ FeedbackShown
    /\ cmd_last' = CmdIdle
    /\ cfg_last' = CfgNone
    /\ UNCHANGED <<state, sock_fd, net_running, net_thread, quit, cpc, btn,
                   checked, sensor_freq, time_window_us, idle, bufVars,
                   sample_lock, wrkVars, netVars, ipVars, drwVars, histVars>>

(* ---------------- cmd_enter: CONFIGURE ---------------- *)
\* INT_MAX
IntMax == (2^30 - 1) + 2^30

\* atoi on a token of digits: its number; beyond INT_MAX the behaviour is
\* undefined: strtol's long cut to its low 32 bits, or strtol saturating where
\* long is int
atoi(tok) ==
    IF tok.wraps = 0 THEN {tok.value} ELSE {tok.value, IntMax}

\* canonical_sensor: the index of the sensor a name stands for, -1 for NULL
canonical_sensor(name) ==
    CASE name \in {"TEMP", "Temp"} -> 0
      [] name \in {"ADC0", "ADC 0"} -> 1
      [] name \in {"ADC1", "ADC 1"} -> 2
      [] name \in {"SW", "Switches"} -> 3
      [] name \in {"PB", "Push Buttons"} -> 4
      [] OTHER -> -1

\* second tokens typed after CONFIGURE
SensorTokens == {"TEMP", "FOO"}

\* third tokens typed after CONFIGURE: a word, the rates around both limits,
\* and 4294967396 = 2^32 + 100
FreqTokens == {Word, Digits(9), Digits(10), Digits(1000), Digits(1001),
               Number(1, 100)}

\* cmd_enter, CONFIGURE branch: the CmdError of a line with argc tokens after
\* the verb, rate being what atoi made of the third token
configure_result(argc, name, tok, rate) ==
    IF argc # 2 THEN "CMD_ERR_SYNTAX"
    ELSE IF canonical_sensor(name) = -1 THEN "CMD_ERR_SENSOR"
    ELSE IF ~tok.digits THEN "CMD_ERR_FREQ_RANGE"
    ELSE IF rate < 10 \/ rate > 1000 THEN "CMD_ERR_FREQ_RANGE"
    ELSE "CMD_OK"

\* cmd_enter on a CONFIGURE line: validation, then the table entry is replaced
\* by the token and, if sock_fd >= 0, "CONFIGURE <id> <rate>" is sent (result
\* ignored).  There is no check of state
cmd_configure(argc, name, tok) ==
    /\ UiIdle
    /\ cmd_last = CmdIdle
    /\ \E rate \in atoi(tok) :
        LET err == configure_result(argc, name, tok, rate)
        IN  /\ cmd_last' = [verb |-> "CONFIGURE", wellformed |-> (argc = 2),
                            err |-> err]
            /\ cfg_last' = [argc |-> argc, sensor |-> name, freq |-> tok,
                            sent |-> IF err = "CMD_OK" /\ sock_fd >= 0
                                     THEN rate ELSE -1]
            /\ sensor_freq' = IF err = "CMD_OK"
                              THEN [sensor_freq EXCEPT
                                        ![canonical_sensor(name)] = tok]
                              ELSE sensor_freq
    /\ UNCHANGED <<state, sock_fd, net_running, net_thread, quit, cpc, btn,
                   checked, time_window_us, idle, bufVars, sample_lock,
                   wrkVars, netVars, ipVars, drwVars, histVars>>

\* cmd_enter on a line that is HELP and nothing else: open_help_terminal
\* spawns a terminal with HELP_TEXT, cmd_status shows "Help opened in
\* terminal" (no CmdError), the entry is insensitive until clear_cmd_feedback
cmd_help ==
    /\ UiIdle
    /\ cmd_last = CmdIdle
    /\ cmd_last' = [verb |-> "HELP", wellformed |-> TRUE, err |-> "NONE"]
    /\ cfg_last' = CfgNone
    /\ UNCHANGED <<state, sock_fd, net_running, net_thread, quit, cpc, btn,
                   checked, sensor_freq, time_window_us, idle, bufVars,
                   sample_lock, wrkVars, netVars, ipVars, drwVars, histVars>>

(* ---------------- draw_grid ---------------- *)
\* is_sensor_selected: the next sensor at or after k whose checkbox is active
NextSelected(k) ==
    IF \E s \in checked : s >= k
    THEN CHOOSE s \in checked : s >= k /\ \A u \in checked : u >= k => s <= u
    ELSE SENSOR_COUNT

\* t_max of draw_grid: the newest relative timestamp over all sensors
NewestTs ==
    LET last(s) == sample_ts[s][((sample_head[s] - 1) + MAX_SAMPLES) % MAX_SAMPLES]
        cands == {last(s) : s \in {u \in Sensors : sample_count[u] > 0}} \cup {0}
    IN  CHOOSE m \in cands : \A x \in cands : x <= m

\* the snapshot a traversal of sensor s under the mutex would return: the
\* buffer as it is, or as it was before the insert that holds the mutex
StableSnapshot(s) ==
    IF sample_lock # 0 /\ batch[sample_lock][wi[sample_lock]].sid = s
    THEN wpre[sample_lock]
    ELSE LockedSnapshot(s)

\* draw_grid leaves the per-sensor loop at sensor k
draw_goto(k) ==
    /\ ds' = IF k < SENSOR_COUNT THEN k ELSE 0
    /\ dpc' = IF k < SENSOR_COUNT THEN "chk" ELSE "none"
    /\ t_min' = IF k < SENSOR_COUNT THEN t_min ELSE 0
    /\ dhead' = 0
    /\ dcount' = 0
    /\ di' = 0
    /\ dvis' = <<>>
    /\ dcands' = {}

\* draw_grid: t_max under the mutex, t_min, then the loop over the sensors
draw_begin ==
    /\ Dispatchable
    /\ sample_lock = 0
    /\ LET first == NextSelected(0)
           t_max == NewestTs
       IN  /\ ds' = IF first < SENSOR_COUNT THEN first ELSE 0
           /\ dpc' = IF first < SENSOR_COUNT THEN "chk" ELSE "none"
           /\ t_min' = IF first < SENSOR_COUNT /\ t_max > time_window_us
                       THEN t_max - time_window_us ELSE 0
    /\ UNCHANGED <<ctlVars, idle, bufVars, sample_lock, wrkVars, netVars, ipVars,
                   dhead, dcount, di, dvis, histVars>>

\* if (sample_count[s] < 2) continue;
draw_chk ==
    /\ Live
    /\ dpc = "chk"
    /\ IF sample_count[ds] < 2
       THEN draw_goto(NextSelected(ds + 1))
       ELSE /\ dpc' = "head"
            /\ dcands' = {StableSnapshot(ds)}
            /\ UNCHANGED <<ds, dhead, dcount, di, dvis, t_min>>
    /\ UNCHANGED <<ctlVars, idle, bufVars, sample_lock, wrkVars, netVars, ipVars,
                   notified, hist, ts_first, ts_max, raced, wpre, wpushed>>

\* int head = sample_head[s];
draw_head ==
    /\ Live
    /\ dpc = "head"
    /\ dhead' = sample_head[ds]
    /\ dpc' = "cnt"
    /\ UNCHANGED <<ctlVars, idle, bufVars, sample_lock, wrkVars, netVars, ipVars,
                   ds, dcount, di, dvis, t_min, histVars>>

\* int count = sample_count[s];
draw_cnt ==
    /\ Live
    /\ dpc = "cnt"
    /\ dcount' = sample_count[ds]
    /\ di' = 0
    /\ dpc' = "rd"
    /\ UNCHANGED <<ctlVars, idle, bufVars, sample_lock, wrkVars, netVars, ipVars,
                   ds, dhead, dvis, t_min, histVars>>

\* one pass of the copy loop: read slot (start + i) % MAX_SAMPLES, keep it if
\* its timestamp is not below t_min
draw_rd ==
    /\ Live
    /\ dpc = "rd"
    /\ di < dcount
    /\ LET start == ((dhead - dcount) + MAX_SAMPLES) % MAX_SAMPLES
           idx == (start + di) % MAX_SAMPLES
           ts == sample_ts[ds][idx]
       IN  dvis' = IF ts < t_min THEN dvis
                   ELSE Append(dvis, <<ts, sample_data[ds][idx]>>)
    /\ di' = di + 1
    /\ UNCHANGED <<ctlVars, idle, bufVars, sample_lock, wrkVars, netVars, ipVars,
                   dpc, ds, dhead, dcount, t_min, histVars>>

\* the copy loop is over: the trace is drawn, on to the next sensor
draw_next ==
    /\ Live
    /\ dpc = "rd"
    /\ di = dcount
    /\ draw_goto(NextSelected(ds + 1))
    /\ UNCHANGED <<ctlVars, idle, bufVars, sample_lock, wrkVars, netVars, ipVars,
                   notified, hist, ts_first, ts_max, raced, wpre, wpushed>>

(* ---------------- specification ---------------- *)
Worker(w) ==
    \/ w_loop(w)
    \/ w_recv_fail(w)
    \/ w_recv_hdr(w)
    \/ w_chk_size(w)
    \/ w_recv_pay(w)
    \/ push_store(w)
    \/ push_count(w)
    \/ push_head(w)

Draw == draw_begin \/ draw_chk \/ draw_head \/ draw_cnt \/ draw_rd \/ draw_next

User ==
    \/ ClickConnect
    \/ ClickDisconnect
    \/ ClickStart
    \/ ClickStop
    \/ ClickShutdown
    \/ \E verb \in CmdVerbs, wellformed \in BOOLEAN : cmd_enter(verb, wellformed)
    \/ on_window_delete
    \/ shutdown_no
    \/ shutdown_yes
    \/ delete_no
    \/ delete_yes

Control ==
    \/ handle_connection_lost
    \/ connect_finish
    \/ disconnect_join
    \/ shutdown_join
    \/ delete_join
    \/ clear_cmd_feedback

Next ==
    \/ User
    \/ Control
    \/ Draw
    \/ \E w \in Conns : Worker(w)
    \/ \E c \in Conns : PeerClose(c)

Spec == Init /\ [][Next]_vars

\* recv() returns in a worker whose peer has closed or whose socket has been
\* shut down; close() alone does not wake a blocked recv()
w_recv_wakes(w) ==
    /\ wfd[w] # -1 => (peer_closed[wfd[w]] \/ local_shut[wfd[w]])
    /\ w_recv_fail(w)

\* the steps of worker w that do not wait for the peer
w_step(w) ==
    \/ w_loop(w)
    \/ w_recv_wakes(w)
    \/ w_chk_size(w)
    \/ push_store(w)
    \/ push_count(w)
    \/ push_head(w)

\* what the control thread goes on with by itself: the rest of a handler that
\* has begun, and the feedback timer
control_rest ==
    \/ connect_finish
    \/ disconnect_join
    \/ shutdown_join
    \/ delete_join
    \/ draw_chk \/ draw_head \/ draw_cnt \/ draw_rd \/ draw_next
    \/ clear_cmd_feedback

\* Scheduling: a thread that can take a step takes it; the main loop goes on
\* with the handler it is in, and runs an idle source that is ready.  Strong
\* fairness, because the guard Live switches every step off while command
\* feedback is shown, and a handler in progress holds the idle sources back.
\* Nothing makes the user or the peer act.
Fairness ==
    /\ \A w \in Conns : SF_vars(w_step(w))
    /\ SF_vars(control_rest)
    /\ SF_vars(handle_connection_lost)

SpecLive == InitLive /\ [][Next]_vars /\ Fairness

\* the stamps of a device clock that is not monotonic
FreeClock == [n \in 0 .. MaxRecords |-> Filled(n, TsInputs)]

\* a peer that sends any of FrameInputs as length prefix
dev_recv_hdr(w) == recv_hdr(w, FrameInputs)

\* a peer whose records carry any id
dev_recv_pay(w) == recv_pay(w, SidInputsAny, RunningClock)

\* a device whose records carry any stamp
clk_recv_pay(w) == recv_pay(w, SidInputs, FreeClock)

\* the worker against a peer that sends anything, in reads of any size
DevWorker(w) ==
    \/ w_loop(w)
    \/ w_recv_fail(w)
    \/ w_recv_part(w)
    \/ dev_recv_hdr(w)
    \/ w_chk_size(w)
    \/ dev_recv_pay(w)
    \/ push_store(w)
    \/ push_count(w)
    \/ push_head(w)

\* the user connects whenever the button allows it and touches nothing else
NextFrame ==
    \/ ClickConnect
    \/ connect_finish
    \/ handle_connection_lost
    \/ \E w \in Conns : DevWorker(w)
    \/ \E c \in Conns : PeerClose(c)

\* the worker against a device whose clock is not monotonic
ClkWorker(w) ==
    \/ w_loop(w)
    \/ w_recv_fail(w)
    \/ w_recv_hdr(w)
    \/ w_chk_size(w)
    \/ clk_recv_pay(w)
    \/ push_store(w)
    \/ push_count(w)
    \/ push_head(w)

NextClock ==
    \/ ClickConnect
    \/ connect_finish
    \/ handle_connection_lost
    \/ \E w \in Conns : ClkWorker(w)
    \/ \E c \in Conns : PeerClose(c)

InitClock == InitWith(ClockBudget)

\* the program without redraws, the device stamping its samples at will
SpecClock == InitClock /\ [][NextClock]_vars

InitFrame == InitWith(FrameBudget)

\* the program without redraws, its peers sending frames of any kind
SpecFrame == InitFrame /\ [][NextFrame]_vars /\ Fairness

\* the user also types CONFIGURE lines; no redraws
NextCmd ==
    \/ User
    \/ \E argc \in 1 .. 3, name \in SensorTokens, tok \in FreqTokens :
            cmd_configure(argc, name, tok)
    \/ cmd_help
    \/ Control
    \/ \E w \in Conns : Worker(w)
    \/ \E c \in Conns : PeerClose(c)

\* the program with a command line that takes every verb
SpecCmd == InitLive /\ [][NextCmd]_vars

\* rate_hz values of a RatesMsg entry for ADC0: 0, the ends of the range whose
\* window needs no clamp (60 .. 6000), values beyond them, and the largest
RateInputs == {0, 1, 59, 60, 61, 300, 6000, 6001, IntMax}

\* rate_hz values of the entries for the other sensors
OtherRates == {10, 1000}

\* RatesMsg: rates[i].sensor_id = i, rates[i].rate_hz drawn per sensor
RatesMsgs ==
    {m \in [Sensors -> RateInputs \cup OtherRates] :
        \A s \in Sensors : s # adc_zero_sid => m[s] \in OtherRates}

\* the window handle_rates_update computes from the ADC0 entry
rates_window(rate_hz, cur) ==
    IF rate_hz > 0
    THEN ClampWindow((VISIBLE_SAMPLES * 1000000) \div rate_hz)
    ELSE cur

\* handle_rates_update, as the main loop would run it on a RatesMsg
handle_rates_update(msg) ==
    /\ Dispatchable
    /\ sock_fd >= 0
    /\ server_t0' = 0
    /\ sensor_freq' = [s \in Sensors |-> Digits(msg[s])]
    /\ time_window_us' = rates_window(msg[adc_zero_sid], time_window_us)
    /\ UNCHANGED <<state, sock_fd, net_running, net_thread, quit, cpc, btn,
                   cmd_last, cfg_last, checked, idle, sample_data, sample_ts,
                   sample_count, sample_head, sample_lock, wrkVars, netVars, ipVars,
                   drwVars, histVars>>

NextRates ==
    \/ ClickConnect
    \/ connect_finish
    \/ ClickStart
    \/ ClickStop
    \/ \E msg \in RatesMsgs : handle_rates_update(msg)

\* connect, START and STOP, with rate updates of every kind applied
SpecRates == InitLive /\ [][NextRates]_vars

\* configure_clicked: id is the active id of the combo box, tok the text of
\* hz_entry; without a socket, with a text that is not all digits or a rate
\* outside 10 .. 1000 it returns, else it sends CONFIGURE (result ignored)
\* and replaces the table entry by the text
configure_clicked(name, tok) ==
    /\ UiIdle
    /\ \E rate \in atoi(tok) :
          sensor_freq' = IF sock_fd >= 0 /\ tok.digits /\ rate >= 10 /\ rate <= 1000
                         THEN [sensor_freq EXCEPT ![canonical_sensor(name)] = tok]
                         ELSE sensor_freq
    /\ UNCHANGED <<state, sock_fd, net_running, net_thread, quit, cpc, btn,
                   cmd_last, cfg_last, checked, time_window_us, idle, bufVars,
                   sample_lock, wrkVars, netVars, ipVars, drwVars, histVars>>

\* the sensors the combo box and the command line name here
RateSensors == {"TEMP", "ADC0"}

NextWindow ==
    \/ ClickConnect
    \/ connect_finish
    \/ ClickStart
    \/ ClickStop
    \/ \E name \in RateSensors, tok \in FreqTokens : cmd_configure(2, name, tok)
    \/ \E name \in RateSensors, tok \in FreqTokens : configure_clicked(name, tok)
    \/ \E msg \in RatesMsgs : handle_rates_update(msg)
    \/ clear_cmd_feedback

\* every way the rate table is written: START, CONFIGURE typed or clicked, and
\* rate updates
SpecWindow == InitLive /\ [][NextWindow]_vars

\* length prefixes of a peer whose payloads need not end on a record: one
\* byte, one record, one record and a byte, two records and 15 bytes
RaggedInputs == {1, RECORD_SIZE, RECORD_SIZE + 1, 2 * RECORD_SIZE + 15}

\* a peer that sends any of RaggedInputs as length prefix
rag_recv_hdr(w) == recv_hdr(w, RaggedInputs)

\* the worker against a peer whose payloads need not end on a record
RagWorker(w) ==
    \/ w_loop(w)
    \/ w_recv_fail(w)
    \/ rag_recv_hdr(w)
    \/ w_chk_size(w)
    \/ w_recv_pay(w)
    \/ push_store(w)
    \/ push_count(w)
    \/ push_head(w)

NextRagged ==
    \/ ClickConnect
    \/ connect_finish
    \/ handle_connection_lost
    \/ \E w \in Conns : RagWorker(w)
    \/ \E c \in Conns : PeerClose(c)

\* the program without redraws, its peers declaring payloads of any length
SpecRagged == InitFrame /\ [][NextRagged]_vars

\* three connections in a row and one frame
ReconnectBudget == <<3, 1>>

InitReconnect == InitWith(ReconnectBudget)

\* the user connects and disconnects, the main loop runs the queued
\* handle_connection_lost calls; no redraws
NextReconnect ==
    \/ ClickConnect
    \/ ClickDisconnect
    \/ connect_finish
    \/ disconnect_join
    \/ handle_connection_lost
    \/ \E w \in Conns : Worker(w)
    \/ \E c \in Conns : PeerClose(c)

SpecReconnect == InitReconnect /\ [][NextReconnect]_vars

(* ---------------- is_valid_ipv4 ---------------- *)
\* the characters of the strings tried: four digits, dot, signs, blank, a letter
DigitChars == {"0", "2", "5", "6"}

DigitVal(c) == CASE c = "0" -> 0 [] c = "2" -> 2 [] c = "5" -> 5 [] c = "6" -> 6

\* %d skips white space before the number
RECURSIVE skip_space(_, _)
skip_space(s, i) ==
    IF i <= Len(s) /\ s[i] = " " THEN skip_space(s, i + 1) ELSE i

\* %d: the digits from position i on, and the position after them
RECURSIVE scan_digits(_, _, _)
scan_digits(s, i, acc) ==
    IF i <= Len(s) /\ s[i] \in DigitChars
    THEN scan_digits(s, i + 1, acc * 10 + DigitVal(s[i]))
    ELSE [val |-> acc, next |-> i]

\* one %d conversion at position i: white space, an optional sign, digits
scan_d(s, i) ==
    LET j == skip_space(s, i)
        signed == j <= Len(s) /\ s[j] \in {"+", "-"}
        k == IF signed THEN j + 1 ELSE j
        r == scan_digits(s, k, 0)
    IN  [ok |-> r.next > k,
         val |-> IF signed /\ s[j] = "-" THEN 0 - r.val ELSE r.val,
         next |-> r.next]

\* "%d.%d.%d.%d": conversions stop at the first %d or literal dot that fails
RECURSIVE scan_groups(_, _, _)
scan_groups(s, i, vals) ==
    LET r == scan_d(s, i)
    IN  IF ~r.ok THEN [vals |-> vals, next |-> i]
        ELSE IF Len(vals) = 3 THEN [vals |-> Append(vals, r.val), next |-> r.next]
        ELSE IF r.next <= Len(s) /\ s[r.next] = "."
             THEN scan_groups(s, r.next + 1, Append(vals, r.val))
             ELSE [vals |-> Append(vals, r.val), next |-> r.next]

\* sscanf(ip, "%d.%d.%d.%d%c", ...): the number of conversions made, and a..d
sscanf_ip(s) ==
    LET r == scan_groups(s, 1, <<>>)
    IN  [n |-> Len(r.vals) + (IF Len(r.vals) = 4 /\ r.next <= Len(s) THEN 1 ELSE 0),
         vals |-> r.vals]

is_valid_ipv4(s) ==
    /\ s # <<>>
    /\ sscanf_ip(s).n = 4
    /\ \A i \in 1 .. 4 : sscanf_ip(s).vals[i] >= 0 /\ sscanf_ip(s).vals[i] <= 255

\* digit groups: 0, 255, 256
Groups == {<<"0">>, <<"2", "5", "5">>, <<"2", "5", "6">>}

\* what the second group is also tried with: nothing, a blank or a sign in
\* front, a leading zero
OddGroups == {<<>>, <<" ", "0">>, <<"+", "0">>, <<"-", "0">>, <<"0", "0">>}

\* what stands between the second and the third group
Dots == {<<".">>, <<".", ".">>, <<" ", ".">>, <<".", " ">>}

\* what follows the third group: nothing, a fourth group, a fourth and a fifth
Rests == {<<>>, <<".", "0">>, <<".", "2", "5", "5">>, <<".", "2", "5", "6">>,
          <<".", "0", ".", "0">>}

\* the texts connect_entry is tried with
IpInputs ==
    {<<>>} \cup
    {pre \o g1 \o <<".">> \o g2 \o d \o g3 \o rest \o tail :
        pre \in {<<>>, <<"+">>, <<"-">>, <<" ">>}, g1 \in Groups,
        g2 \in Groups \cup OddGroups, d \in Dots, g3 \in Groups, rest \in Rests,
        tail \in {<<>>, <<"x">>, <<" ">>, <<".">>}}

\* apply_state: ip_ok = is_valid_ipv4(gtk_entry_get_text(connect_entry))
check_ip ==
    /\ ip_ok = -1
    /\ ip_ok' = IF is_valid_ipv4(ip_text) THEN 1 ELSE 0
    /\ UNCHANGED <<ctlVars, idle, bufVars, sample_lock, wrkVars, netVars, ip_text,
                   drwVars, histVars>>

NextIpv4 == check_ip

InitIpv4 == \E text \in IpInputs : InitEntry(LiveBudget, text)

\* apply_state's validation of the address entry, over every text tried
SpecIpv4 == InitIpv4 /\ [][NextIpv4]_vars

(* ---------------- properties ---------------- *)
\* the verbs of the legal-transition table, by state
LegalVerbs(st) ==
    CASE st = STATE_DISCONNECTED -> {"CONNECT"}
      [] st = STATE_CONNECTED -> {"START", "DISCONNECT", "SHUTDOWN"}
      [] st = STATE_RUNNING -> {"STOP"}

\* the CmdError kinds that report a state violation
StateViolationKinds == {"CMD_ERR_NOT_CONNECTED", "CMD_ERR_RUNNING",
                        "CMD_ERR_ALREADY_RUNNING", "CMD_ERR_NOT_RUNNING"}

\* this step is cmd_enter handling a command line
CmdStep == cmd_last = CmdIdle /\ cmd_last' # CmdIdle

\* this step is a run of handle_connection_lost
LostStep == notified' # notified

\* C1: a well-formed command whose verb is not legal in the current state ends
\* with a state-violation kind (not CMD_OK, not CMD_ERR_SYNTAX) and leaves
\* state, sock_fd and net_running unchanged
C1_IllegalCommandRejected ==
    [][(/\ CmdStep
        /\ cmd_last'.wellformed
        /\ cmd_last'.verb \in StateVerbs
        /\ cmd_last'.verb \notin LegalVerbs(state))
       => (/\ cmd_last'.err \in StateViolationKinds
           /\ UNCHANGED <<state, sock_fd, net_running>>)]_vars

LegalChanges == {<<STATE_DISCONNECTED, STATE_CONNECTED>>,
                 <<STATE_CONNECTED, STATE_RUNNING>>,
                 <<STATE_RUNNING, STATE_CONNECTED>>,
                 <<STATE_CONNECTED, STATE_DISCONNECTED>>}

\* C2: every change of state made by a step other than handle_connection_lost
\* (a command, a click on an enabled button, or the rest of its handler) is a
\* legal transition, and a connection is only established from DISCONNECTED
C2_UserChangesLegal ==
    [][/\ (~LostStep /\ state' # state) => <<state, state'>> \in LegalChanges
       /\ nconn' # nconn => state = STATE_DISCONNECTED]_vars

\* C2 witness: connect, start and stop have run on the first connection, the
\* last of them from the command line, and no connection loss was handled
C2_Witness ==
    /\ state = STATE_CONNECTED
    /\ nconn = 1
    /\ time_window_us # DEFAULT_WINDOW_US
    /\ cmd_last = [verb |-> "STOP", wellformed |-> TRUE, err |-> "CMD_OK"]
    /\ \A w \in Conns : notified[w] = 0

\* the main loop, or the nested loop of a dialog, is between two handlers
BetweenHandlers ==
    /\ ~quit
    /\ cpc \in {"idle", "shut_dialog", "del_dialog"}
    /\ dpc = "none"

\* C3: between handlers, sock_fd >= 0 exactly when state is not DISCONNECTED
C3_SocketIffConnected ==
    BetweenHandlers => (sock_fd >= 0 <=> state # STATE_DISCONNECTED)

\* C3 witness: a connection was established and the connection-loss cleanup
\* has torn it down
C3_Witness ==
    /\ BetweenHandlers
    /\ state = STATE_DISCONNECTED
    /\ sock_fd = -1
    /\ nconn >= 1
    /\ \E w \in Conns : notified[w] = 1 /\ fd_closes[w] = 1 /\ ~local_shut[w]

\* what a rejected command must leave alone
programVars == <<state, sock_fd, net_running, net_thread, quit, cpc, btn, checked, sensor_freq,
                 time_window_us, idle, bufVars, sample_lock, wrkVars, netVars>>

\* C4: once the peer has closed the socket of the session while the state is
\* CONNECTED or RUNNING, the session gets to DISCONNECTED with sock_fd = -1 and
\* net_running = 0 (unless the program is quit first); and a DISCONNECT typed
\* while DISCONNECTED ends with CMD_ERR_NOT_CONNECTED and changes nothing
C4_LossLeadsToDisconnected ==
    /\ \A c \in Conns :
        (peer_closed[c] /\ sock_fd = c /\ state # STATE_DISCONNECTED)
            ~> (\/ quit
                \/ (state = STATE_DISCONNECTED /\ sock_fd = -1 /\ net_running = 0))
    /\ [][(/\ CmdStep
            /\ cmd_last'.verb = "DISCONNECT"
            /\ cmd_last'.wellformed
            /\ state = STATE_DISCONNECTED)
           => (/\ cmd_last'.err = "CMD_ERR_NOT_CONNECTED"
               /\ UNCHANGED programVars)]_vars

\* C4 witness: the peer closed the first connection, no frame was delivered,
\* nobody shut the socket down, the cleanup closed it, and a DISCONNECT typed
\* afterwards was rejected
C4_Witness ==
    /\ nconn = 1
    /\ peer_closed[1] /\ ~local_shut[1] /\ fd_closes[1] = 1 /\ notified[1] = 1
    /\ frames_left = LiveBudget[2]
    /\ state = STATE_DISCONNECTED /\ sock_fd = -1 /\ net_running = 0
    /\ cmd_last = [verb |-> "DISCONNECT", wellformed |-> TRUE,
                   err |-> "CMD_ERR_NOT_CONNECTED"]

AliveWorkers == {w \in Conns : Alive(w)}

\* C5: at most one worker is alive, and no connection is established (no new
\* socket, no new worker) while a worker of an earlier connection is alive
C5_OneWorker ==
    [][/\ Cardinality(AliveWorkers') <= 1
       /\ nconn' # nconn => AliveWorkers = {}]_vars

\* handle_connection_lost callbacks of worker w that wait in the idle queue
Pending(w) == Cardinality({i \in 1 .. Len(idle) : idle[i] = w})

\* C6: a worker that has returned has exactly one handle_connection_lost to
\* its name, queued or run, a worker that has not has none, and the queued
\* one is run (unless the program is quit first)
C6_NotifiedOnce ==
    /\ [](\A w \in Conns :
            notified[w] + Pending(w) = (IF wpc[w] = "dead" THEN 1 ELSE 0))
    /\ \A w \in Conns : (wpc[w] = "dead") ~> (quit \/ notified[w] = 1)

\* C6 witness: the peer closed a connection nobody shut down, its worker has
\* returned and handle_connection_lost has run for it
C6_Witness ==
    \E w \in Conns :
        /\ peer_closed[w] /\ ~local_shut[w]
        /\ wpc[w] = "dead"
        /\ notified[w] = 1 /\ Pending(w) = 0

\* the session is torn down already
TornDown == state = STATE_DISCONNECTED /\ sock_fd = -1 /\ net_running = 0

\* C7: a run of handle_connection_lost on a session that is torn down already
\* leaves state, sock_fd, net_running and all heads, counts and the origin as
\* they were, and closes no socket
C7_CleanupIdempotent ==
    [][(LostStep /\ TornDown)
       => UNCHANGED <<state, sock_fd, net_running, sample_head, sample_count,
                      server_t0, fd_closes>>]_vars

\* C8: no reset_plot_state runs while an insert is in progress
C8_NoResetDuringInsert == ~raced

\* C9: when the copy loop of draw_grid is through, what it copied is the
\* visible part of the buffer as it was at one instant of the traversal
C9_SnapshotAtOneInstant ==
    (dpc = "rd" /\ di = dcount) => dvis \in {KeepFrom(c, t_min) : c \in dcands}

\* the values of the buffer of sensor s, oldest first
BufferValues(s) == [i \in 1 .. sample_count[s] |-> LockedSnapshot(s)[i][2]]

\* C10: with no insert in progress and no reset in the middle of one, a buffer
\* that took m inserts since the last reset holds Min(m, MAX_SAMPLES) entries,
\* the most recent ones in insertion order
C10_RingHoldsMostRecent ==
    (sample_lock = 0 /\ ~raced) =>
        \A s \in Sensors :
            /\ sample_count[s] = Min(Len(hist[s]), MAX_SAMPLES)
            /\ BufferValues(s) = LastK(hist[s], sample_count[s])

\* C10 witness: a sensor took more inserts than its buffer holds
C10_Witness ==
    /\ sample_lock = 0
    /\ ~raced
    /\ \E s \in Sensors : Len(hist[s]) > MAX_SAMPLES

\* the relative timestamps of the buffer of sensor s, oldest first
BufferStamps(s) == [i \in 1 .. sample_count[s] |-> LockedSnapshot(s)[i][1]]

\* C11: with no insert in progress and no reset in the middle of one, the
\* relative timestamps of each buffer, read oldest to newest, never decrease
C11_StampsNonDecreasing ==
    (sample_lock = 0 /\ ~raced) =>
        \A s \in Sensors :
            \A i \in 1 .. (sample_count[s] - 1) :
                BufferStamps(s)[i] <= BufferStamps(s)[i + 1]

\* this step is worker w entering push_sample with the record it is at
PushStep(w) == wpc[w] = "push" /\ wpc'[w] = "push_count"

\* C12: an insert whose device timestamp is below the largest one inserted
\* since the last reset is taken as a device reset: heads and counts of all
\* sensors are cleared and the origin becomes that timestamp before the sample
\* is stored (at slot 0, with relative timestamp 0)
C12_BackwardJumpResets ==
    [][\A w \in Conns :
        (PushStep(w) /\ ts_max # -1 /\ batch[w][wi[w]].ts < ts_max) =>
            LET r == batch[w][wi[w]]
            IN  /\ server_t0' = r.ts
                /\ whead'[w] = 0
                /\ sample_ts'[r.sid][0] = 0
                /\ \A s \in Sensors \ {r.sid} :
                    sample_count'[s] = 0 /\ sample_head'[s] = 0]_vars

\* C13: once a sample has been inserted after a reset, the origin is the
\* device timestamp of the first such sample, whatever that timestamp is, and
\* stays so until the next reset; and every insert stores its device timestamp
\* minus that origin (no insert in progress, no reset in the middle of one)
C13_OriginIsFirstStamp ==
    /\ []((sample_lock = 0 /\ ~raced /\ ts_first # -1) => server_t0 = ts_first)
    /\ [][\A w \in Conns :
            (PushStep(w) /\ ~raced) =>
                LET r == batch[w][wi[w]]
                    first == IF ts_first = -1 THEN r.ts ELSE ts_first
                IN  sample_ts'[r.sid][whead'[w]] =
                        (r.ts - first) % TsModulus]_vars

\* the session is torn down and CONNECT is accepted: the button is sensitive
\* and the command line takes the verb
ConnectAccepted ==
    /\ TornDown
    /\ btn.connect
    /\ cmd_result("CONNECT", TRUE, state) = "CMD_OK"

PartStates == {"recv_hdr_part", "recv_pay_part"}

AllValid(b) == \A i \in 1 .. Len(b) : b[i].sid \in Sensors

\* this step is worker w getting the payload it waits for
PayStep(w) ==
    /\ wpc[w] \in {"recv_pay", "recv_pay_part"}
    /\ wpc'[w] \in {"push", "loop"}

C17_RatesDecoded ==
    [][\A w \in Conns :
        (wpc[w] = "chk_size" /\ wsize[w] = RatesTag /\ wpc'[w] # "chk_size") =>
            /\ wpc'[w] # "dead"
            /\ idle' = idle
            /\ UNCHANGED <<state, sock_fd>>]_vars

\* this step is cmd_enter handling a CONFIGURE line
CfgStep == CmdStep /\ cmd_last'.verb = "CONFIGURE"

\* the frequency token is a number from 10 to 1000
FreqInRange(tok) ==
    tok.digits /\ tok.wraps = 0 /\ tok.value >= 10 /\ tok.value <= 1000

\* the CONFIGURE line has two arguments, a known sensor and a rate in range
CfgValid(c) ==
    /\ c.argc = 2
    /\ canonical_sensor(c.sensor) \in Sensors
    /\ FreqInRange(c.freq)

\* C18: a valid CONFIGURE line is accepted when the state is RUNNING; in
\* DISCONNECTED and CONNECTED it ends with a state-violation kind, nothing is
\* sent and the rate table is unchanged
C18_ConfigureOnlyRunning ==
    [][(CfgStep /\ CfgValid(cfg_last')) =>
            IF state = STATE_RUNNING
            THEN cmd_last'.err = "CMD_OK"
            ELSE /\ cmd_last'.err \in StateViolationKinds
                 /\ cfg_last'.sent = -1
                 /\ UNCHANGED sensor_freq]_vars

\* C19: a CONFIGURE line with a wrong number of arguments ends with
\* CMD_ERR_SYNTAX, one with an unknown sensor with CMD_ERR_SENSOR, one whose
\* frequency is not a number from 10 to 1000 with CMD_ERR_FREQ_RANGE; and a
\* rejected line leaves rate table, state and socket alone and sends nothing
C19_ConfigureValidation ==
    [][CfgStep =>
        LET c == cfg_last'
            err == cmd_last'.err
        IN  /\ c.argc # 2 => err = "CMD_ERR_SYNTAX"
            /\ (c.argc = 2 /\ canonical_sensor(c.sensor) = -1)
                    => err = "CMD_ERR_SENSOR"
            /\ (c.argc = 2 /\ canonical_sensor(c.sensor) # -1
                    /\ ~FreqInRange(c.freq))
                    => err = "CMD_ERR_FREQ_RANGE"
            /\ err # "CMD_OK" =>
                    /\ c.sent = -1
                    /\ UNCHANGED <<sensor_freq, state, sock_fd>>]_vars

\* C20: a well-formed line with a state-dependent verb that is illegal in the
\* current state ends with the kind of its case: CMD_ERR_NOT_CONNECTED for
\* START, STOP, DISCONNECT and SHUTDOWN while DISCONNECTED,
\* CMD_ERR_ALREADY_RUNNING for START while RUNNING, CMD_ERR_NOT_RUNNING for
\* STOP while CONNECTED, CMD_ERR_RUNNING for DISCONNECT and SHUTDOWN while
\* RUNNING, and for CONNECT while CONNECTED or RUNNING a kind that is neither
\* success nor CMD_ERR_SYNTAX
C20_KindPerIllegalCase ==
    [][(CmdStep /\ cmd_last'.wellformed) =>
        LET verb == cmd_last'.verb
            err == cmd_last'.err
        IN  /\ (verb \in {"START", "STOP", "DISCONNECT", "SHUTDOWN"}
                    /\ state = STATE_DISCONNECTED)
                    => err = "CMD_ERR_NOT_CONNECTED"
            /\ (verb = "START" /\ state = STATE_RUNNING)
                    => err = "CMD_ERR_ALREADY_RUNNING"
            /\ (verb = "STOP" /\ state = STATE_CONNECTED)
                    => err = "CMD_ERR_NOT_RUNNING"
            /\ (verb \in {"DISCONNECT", "SHUTDOWN"} /\ state = STATE_RUNNING)
                    => err = "CMD_ERR_RUNNING"
            /\ (verb = "CONNECT" /\ state # STATE_DISCONNECTED)
                    => err \notin {"CMD_OK", "CMD_ERR_SYNTAX"}]_vars

\* the CmdError kinds that report a rejected line
RejectKinds == CmdError \ {"CMD_OK"}

\* C21: a HELP or STATUS line is accepted in every state and changes nothing:
\* no rejection kind, state, sock_fd, rate table and ring buffer as they
\* were, nothing sent
C21_HelpStatusReadOnly ==
    [][(CmdStep /\ cmd_last'.wellformed /\ cmd_last'.verb \in {"HELP", "STATUS"}) =>
            /\ cmd_last'.err \notin RejectKinds
            /\ cfg_last'.sent = -1
            /\ UNCHANGED <<state, sock_fd, sensor_freq, bufVars>>]_vars

\* C22: a CONNECT command whose connection attempt fails on any of the five
\* failure paths leaves no descriptor open, sock_fd at -1, no worker created,
\* net_running at 0, the ring buffer as it was and the state DISCONNECTED
C22_FailedConnectLeavesNothing ==
    [][(CmdStep /\ cmd_last'.verb = "CONNECT" /\ cmd_last'.err = "CMD_OK" /\ nconn' = nconn) =>
            /\ fd_lost' = 0
            /\ sock_fd' = -1
            /\ net_running' = 0
            /\ state' = STATE_DISCONNECTED
            /\ UNCHANGED <<net_running, net_thread, wpc, bufVars>>]_vars

\* a CONNECT command was accepted and its attempt failed: no connection was ever made
C22_Witness ==
    /\ cmd_last = [verb |-> "CONNECT", wellformed |-> TRUE, err |-> "CMD_OK"]
    /\ nconn = 0
    /\ sock_fd = -1
    /\ state = STATE_DISCONNECTED
    /\ AliveWorkers = {}

\* every sensor's ring is empty and the time origin is unset
BufferEmpty ==
    /\ \A s \in Sensors : sample_count[s] = 0 /\ sample_head[s] = 0
    /\ server_t0 = 0

\* C23: whenever the control thread is between handlers and the state is
\* DISCONNECTED, every sensor has count 0 and head 0 and the origin is 0
C23_DisconnectedIsEmpty ==
    (BetweenHandlers /\ state = STATE_DISCONNECTED) => BufferEmpty

\* the step of a handler that calls gtk_main_quit
QuitStep == ~quit /\ quit'

\* C24: a handler that quits the main loop while the state is not DISCONNECTED
\* has, when it quits, stopped and joined the worker of the connection, then
\* closed the socket (the close comes after the join), then reset the ring
C24_ExitStopsClosesResets ==
    [][/\ (QuitStep /\ state # STATE_DISCONNECTED) =>
              /\ net_running' = 0
              /\ net_thread # 0 /\ wpc'[net_thread] = "dead"
              /\ sock_fd' = -1
              /\ BufferEmpty'
       /\ (cpc \in {"shut_dialog", "shut_join", "del_dialog", "del_join"}
             /\ fd_closes' # fd_closes /\ cpc' = "idle") =>
              wpc[sock_fd] = "dead"]_vars

\* the step of shutdown_clicked that follows the answer Yes
ShutdownGoes == cpc = "shut_dialog" /\ (cpc' = "shut_join" \/ quit')

\* C25: a SHUTDOWN that goes ahead sends STOP first exactly if the state is
\* RUNNING, then one SHUTDOWN line, each on a socket that is open and not
\* half-closed; after that the worker is stopped and joined and the socket
\* closed before the main loop is quit, and nothing changes the state afterwards
C25_ShutdownOrder ==
    [][/\ ShutdownGoes =>
              shut_lines' =
                  (IF state = STATE_RUNNING
                   THEN <<[line |-> "STOP", open |-> TRUE]>> ELSE <<>>)
                  \o <<[line |-> "SHUTDOWN", open |-> TRUE]>>
       /\ cpc = "shut_join" =>
              /\ Len(shut_lines) >= 1
              /\ UNCHANGED <<shut_lines, state, sock_fd>> \/ quit'
       /\ (cpc \in {"shut_dialog", "shut_join"} /\ QuitStep) =>
              /\ net_running' = 0
              /\ sock_fd' = -1
              /\ state' = STATE_DISCONNECTED
       /\ quit => UNCHANGED <<quit, state, sock_fd, shut_lines>>]_vars

\* C26: the cached visible time window lies in [MIN_WINDOW_US, MAX_WINDOW_US]
\* at all times: initially, after every START and after a rate update with
\* any rate
C26_WindowInRange ==
    MIN_WINDOW_US <= time_window_us /\ time_window_us <= MAX_WINDOW_US

\* a rate update with an ADC0 rate above 6000 Hz was applied: the window is
\* held at the lower limit
C26_Witness ==
    /\ sensor_freq[adc_zero_sid] = Digits(6001)
    /\ time_window_us = MIN_WINDOW_US

\* the positions of the dots of s, with the positions before and after s
Bounds(s) == {0, Len(s) + 1} \cup {i \in 1 .. Len(s) : s[i] = "."}

\* the value of a string of digits
RECURSIVE DecimalValue(_)
DecimalValue(g) ==
    IF g = <<>> THEN 0
    ELSE DecimalValue(SubSeq(g, 1, Len(g) - 1)) * 10 + DigitVal(g[Len(g)])

\* s is four groups of digits, each worth 0 to 255, with single dots between
\* them and nothing else
StrictIpv4(s) ==
    /\ \A i \in 1 .. Len(s) : s[i] \in DigitChars \cup {"."}
    /\ Cardinality(Bounds(s)) = 5
    /\ \A b \in Bounds(s) \ {Len(s) + 1} :
          LET e == CHOOSE x \in Bounds(s) :
                       x > b /\ \A y \in Bounds(s) : y > b => x <= y
          IN  e > b + 1 /\ DecimalValue(SubSeq(s, b + 1, e - 1)) <= 255

\* C27: is_valid_ipv4(s) is true exactly when s is four decimal digit groups,
\* each in 0 .. 255, separated by single dots and nothing else
C27_Ipv4Strict ==
    ip_ok # -1 => (ip_ok = 1 <=> StrictIpv4(ip_text))

\* C28: a run of handle_connection_lost that was queued by the worker of an
\* earlier connection than the latest one leaves the later connection alone:
\* it closes no socket and changes neither sock_fd, net_running, the ring
\* buffer nor the state
C28_StaleCleanupHarmless ==
    [][(LostStep /\ Head(idle) < nconn) =>
            UNCHANGED <<state, sock_fd, net_running, fd_closes, bufVars>>]_vars

\* C29: a socket is closed only once the worker that reads from it has
\* returned, and no socket is closed twice
C29_CloseOnceAfterWorker ==
    [][fd_closes' # fd_closes =>
            /\ sock_fd >= 0 /\ wpc[sock_fd] = "dead"
            /\ \A c \in Conns : fd_closes'[c] <= 1]_vars

\* the control thread is blocked in pthread_join
JoinStates == {"disc_join", "shut_join", "del_join"}

NoFrameYet == frames_left + conn_left + nconn = MaxConn

\* C31: handle_connection_lost never runs for a connection the user ended
\* while it was healthy: the control thread shut it down, the peer had not
\* closed it, and no frame had arrived that could be a read or framing error
C31_NoLossAfterUserDisconnect ==
    [][LostStep =>
            ~(/\ local_shut[Head(idle)]
              /\ ~peer_closed[Head(idle)]
              /\ NoFrameYet)]_vars

\* C32: while cmd_status shows success for CONNECT the socket is valid and the
\* state is CONNECTED (or connect_clicked is about to set it), and while it
\* shows success for START the state is RUNNING
C32_SuccessMeansEffect ==
    cmd_last.err = "CMD_OK" =>
        /\ cmd_last.verb = "CONNECT" =>
              /\ sock_fd >= 0
              /\ state = STATE_CONNECTED \/ cpc = "connect_reset"
        /\ cmd_last.verb = "START" => state = STATE_RUNNING

\* C33: whenever the rate table's entry for ADC0 changes to a rate r, the
\* visible window becomes clamp(VISIBLE_SAMPLES * 1,000,000 / r)
C33_WindowFollowsAdc0 ==
    [][(/\ sensor_freq'[adc_zero_sid] # sensor_freq[adc_zero_sid]
        /\ sensor_freq'[adc_zero_sid].wraps = 0
        /\ sensor_freq'[adc_zero_sid].value > 0) =>
            time_window_us' =
                ClampWindow((VISIBLE_SAMPLES * 1000000)
                                \div sensor_freq'[adc_zero_sid].value)]_vars

\* C34: a declared length goes on to the payload only if it is a whole
\* multiple of RECORD_SIZE, and the records decoded from a payload account
\* for every byte that was read
C34_WholeRecordsOnly ==
    [][\A w \in Conns :
        /\ (wpc[w] = "chk_size" /\ wpc'[w] = "recv_pay") =>
                wsize[w] % RECORD_SIZE = 0
        /\ PayStep(w) => Len(batch'[w]) * RECORD_SIZE = wsize[w]]_vars

\* worker w is inside push_sample
InPush(w) == wpc[w] \in {"push", "push_count", "push_head"}

\* C35: push_sample is only ever called with a sensor index in [0, 5),
\* whatever ids the records of a frame carry, and every sensor's head stays in
\* [0, MAX_SAMPLES) and its count in [0, MAX_SAMPLES]
C35_IndexInRange ==
    /\ \A w \in Conns : InPush(w) => batch[w][wi[w]].sid \in Sensors
    /\ \A s \in Sensors :
          /\ sample_head[s] >= 0 /\ sample_head[s] < MAX_SAMPLES
          /\ sample_count[s] >= 0 /\ sample_count[s] <= MAX_SAMPLES

\* C35 witness: the first record of a batch carries the id 5 and was skipped,
\* the second has been stored and counted
C35_Witness ==
    \E w \in Conns :
        /\ wpc[w] = "push_head"
        /\ wi[w] = 2
        /\ batch[w][1].sid = SENSOR_COUNT
        /\ sample_count[batch[w][2].sid] = 1

\* C36: for every sensor, while the ring is not full the head equals the count
\* (the entries occupy the indices 0 .. count - 1), whenever no insert holds the
\* sample mutex
C36_HeadIsCountUntilFull ==
    sample_lock = 0 =>
        \A s \in Sensors :
            sample_count[s] < MAX_SAMPLES => sample_head[s] = sample_count[s]

\* record r is among the count[r.sid] newest entries of its ring
Readable(r) ==
    \E k \in 1 .. sample_count[r.sid] :
        sample_data[r.sid][(sample_head[r.sid] + MAX_SAMPLES - k) % MAX_SAMPLES] = r.val

\* C37: while the state is CONNECTED or RUNNING, a sample that is readable in
\* the ring buffer was received on the current connection: the inserted records
\* of a batch in progress that are readable came in on sock_fd
C37_SamplesOfCurrentConnection ==
    state \in {STATE_CONNECTED, STATE_RUNNING} =>
        \A w \in Conns : \A i \in 1 .. Len(wpushed[w]) :
            Readable(wpushed[w][i]) => wfd[w] = sock_fd

\* a handler that sends START can run and passes the guards of start_clicked
StartCanBeSent ==
    /\ UiIdle
    /\ sock_fd >= 0
    /\ state # STATE_RUNNING
    /\ \/ btn.start
       \/ cmd_last = CmdIdle /\ cmd_result("START", TRUE, state) = "CMD_OK"

\* a handler that sends STOP can run and passes the guard of stop_clicked, or a
\* confirmed exit is about to send STOP
StopCanBeSent ==
    \/ /\ UiIdle
       /\ sock_fd >= 0
       /\ \/ btn.stop
          \/ cmd_last = CmdIdle /\ cmd_result("STOP", TRUE, state) = "CMD_OK"
    \/ /\ Live
       /\ cpc \in {"shut_dialog", "del_dialog"}
       /\ sock_fd >= 0
       /\ state = STATE_RUNNING

\* the steps that change the streaming state on a connection: START went out
\* and the state is RUNNING, STOP went out and the state is CONNECTED, or the
\* connection ended (or the program quits)
StreamStep ==
    /\ (state # STATE_RUNNING /\ state' = STATE_RUNNING) =>
            /\ ClickStart \/ cmd_enter("START", TRUE)
            /\ state = STATE_CONNECTED /\ sock_fd >= 0 /\ sock_fd' = sock_fd
    /\ (state = STATE_RUNNING /\ state' = STATE_CONNECTED) =>
            /\ ClickStop \/ cmd_enter("STOP", TRUE)
            /\ sock_fd >= 0 /\ sock_fd' = sock_fd
    /\ (state # STATE_DISCONNECTED /\ sock_fd' # sock_fd) =>
            (sock_fd' = -1 /\ (state' = STATE_DISCONNECTED \/ quit'))
    /\ (state = STATE_DISCONNECTED /\ state' # STATE_DISCONNECTED) =>
            state' = STATE_CONNECTED

\* C38: on one connection START and STOP alternate, START first: START can
\* only be sent in CONNECTED and leaves RUNNING, STOP can only be sent in
\* RUNNING and leaves CONNECTED, and a new connection begins in CONNECTED
C38_StartStopAlternate ==
    /\ [](StartCanBeSent => state = STATE_CONNECTED)
    /\ [](StopCanBeSent => state = STATE_RUNNING)
    /\ [](state = STATE_RUNNING => (sock_fd >= 0 \/ quit))
    /\ [][StreamStep]_vars

\* C38 witness: the stream runs on the second connection and STOP can be sent
C38_Witness ==
    /\ StopCanBeSent
    /\ state = STATE_RUNNING
    /\ nconn = 2
    /\ btn.stop

\* a step of the thread of worker w: its position changes after pthread_create
WorkerStep(w) == wpc[w] # "none" /\ wpc'[w] # wpc[w]

\* C39: a step of the worker thread writes no session or UI state: state,
\* sock_fd, net_running, the rate table, the time window and the rest of the
\* control thread's variables stay as they are; it writes the ring buffer only
\* while it holds sample_lock, and otherwise only the idle queue
C39_WorkerWritesOnlyRing ==
    [][\A w \in Conns :
          WorkerStep(w) =>
              /\ UNCHANGED <<state, sock_fd, net_running, sensor_freq, time_window_us>>
              /\ UNCHANGED <<net_thread, quit, cpc, btn, checked, cmd_last, cfg_last>>
              /\ bufVars' # bufVars => (sample_lock = w \/ sample_lock' = w)]_vars

\* C39 witness: a worker has stored a sample under the mutex while the stream
\* runs
C39_Witness ==
    \E w \in Conns :
        /\ wpc[w] = "push_count"
        /\ sample_lock = w
        /\ state = STATE_RUNNING

\* C40: every entry of the sensor rate table is the text of an integer from 10
\* to 1000
C40_RatesInRange ==
    \A s \in Sensors :
        sensor_freq[s] # NoEntry =>
            /\ sensor_freq[s].digits
            /\ sensor_freq[s].wraps = 0
            /\ sensor_freq[s].value >= 10
            /\ sensor_freq[s].value <= 1000

====
